---- MODULE Spec2Model ----
(***************************************************************************)
(* brytongo: conversion of a parsed GPX track into the three Bryton files  *)
(* (.smy, .track, .tinfo).  The model follows the library version of the   *)
(* package (package brytongo, little-endian writers, explicit .smy flag).  *)
(*                                                                         *)
(* Numbers.  TLC integers are 32 bits wide, so a float64 is kept as        *)
(*   [neg, mant, exp]  with value (-1)^neg * mant * 2^exp,                 *)
(* where mant is a natural number below 2^53 written in base 2^14,         *)
(* least significant limb first, without leading zero limbs (<<>> is 0).   *)
(* Strings are sequences of bytes.                                         *)
(***************************************************************************)
EXTENDS Integers, Sequences, FiniteSets, TLC

VARIABLES
    geo,        \* SpecCodec: the float64 handed to adjustGeoCoordinates
    adjusted,   \* SpecCodec: what adjustGeoCoordinates returned (a sequence of 0 or 1 int32)
    seq,        \* SpecResolve: the BrytonTrack searched
    point,      \* SpecResolve: the GeoPoint searched for
    index,      \* SpecResolve: what getCoordinateIndex returned (a sequence of 0 or 1 uint16)
    pc,         \* Spec: where the caller of the README is: start, imported, failed, exported
    gpxData,    \* Spec: what gpx.ParseFile returned for the input file
    d,          \* Spec: the caller's BrytonData
    err,        \* Spec: what ImportGpx returned
    files,      \* Spec: the three output files on disk
    attempts,   \* Spec: the storeToFile calls of the export, in order, with what each returned
    exportRet   \* Spec: what BrytonData.Export handed back to its caller

pureVars == <<geo, adjusted, seq, point, index>>
runVars == <<pc, gpxData, d, err, files, attempts, exportRet>>
vars == <<geo, adjusted, seq, point, index, pc, gpxData, d, err, files, attempts, exportRet>>

(***************************************************************************)
(* Natural numbers in base 2^14.                                           *)
(***************************************************************************)
LimbBits == 7 + 7
LimbBase == 2^LimbBits

Pow2(k) == 2^k

RECURSIVE Norm(_)
Norm(a) == IF a = <<>> THEN <<>>
           ELSE IF a[Len(a)] = 0 THEN Norm(SubSeq(a, 1, Len(a) - 1))
           ELSE a

RECURSIVE BigAdd(_, _, _)
BigAdd(a, b, carry) ==
    IF a = <<>> /\ b = <<>> THEN (IF carry = 0 THEN <<>> ELSE <<carry>>)
    ELSE LET x == IF a = <<>> THEN 0 ELSE Head(a)
             y == IF b = <<>> THEN 0 ELSE Head(b)
             s == x + y + carry
         IN  <<s % LimbBase>> \o
             BigAdd(IF a = <<>> THEN <<>> ELSE Tail(a),
                    IF b = <<>> THEN <<>> ELSE Tail(b), s \div LimbBase)

RECURSIVE MulSmall(_, _, _)
MulSmall(a, k, carry) ==
    IF a = <<>> THEN (IF carry = 0 THEN <<>> ELSE <<carry>>)
    ELSE LET s == Head(a) * k + carry
         IN  <<s % LimbBase>> \o MulSmall(Tail(a), k, s \div LimbBase)

RECURSIVE BigMul(_, _)
BigMul(a, b) ==
    IF b = <<>> \/ a = <<>> THEN <<>>
    ELSE Norm(BigAdd(MulSmall(a, Head(b), 0), <<0>> \o BigMul(a, Tail(b)), 0))

RECURSIVE SmallBitLen(_)
SmallBitLen(n) == IF n = 0 THEN 0 ELSE 1 + SmallBitLen(n \div 2)

BitLen(a) == IF a = <<>> THEN 0 ELSE (Len(a) - 1) * LimbBits + SmallBitLen(a[Len(a)])

Limb(a, i) == IF i >= 1 /\ i <= Len(a) THEN a[i] ELSE 0

\* bit i (0 = least significant) of a
Bit(a, i) == (Limb(a, (i \div LimbBits) + 1) \div Pow2(i % LimbBits)) % 2

\* whether the k low bits of a are all zero
LowBitsZero(a, k) ==
    /\ \A i \in 1..(k \div LimbBits) : Limb(a, i) = 0
    /\ Limb(a, (k \div LimbBits) + 1) % Pow2(k % LimbBits) = 0

\* a \div 2^k
ShiftRight(a, k) ==
    LET q == k \div LimbBits
        r == k % LimbBits
        n == Len(a) - q
    IN  IF n <= 0 THEN <<>>
        ELSE Norm([i \in 1..n |->
                 (a[i + q] \div Pow2(r)) + (Limb(a, i + q + 1) % Pow2(r)) * Pow2(LimbBits - r)])

\* a * 2^k
ShiftLeft(a, k) ==
    LET q == k \div LimbBits
        r == k % LimbBits
    IN  IF a = <<>> THEN <<>>
        ELSE [i \in 1..q |-> 0] \o MulSmall(a, Pow2(r), 0)

\* a <= b
BigLeq(a, b) ==
    \/ Len(a) < Len(b)
    \/ /\ Len(a) = Len(b)
       /\ \/ a = b
          \/ \E i \in 1..Len(a) : /\ a[i] < b[i]
                                  /\ \A j \in (i + 1)..Len(a) : a[j] = b[j]

RECURSIVE FromInt(_)
FromInt(n) == IF n = 0 THEN <<>> ELSE <<n % LimbBase>> \o FromInt(n \div LimbBase)

\* the value of a, for a below 2^31
RECURSIVE ToInt(_)
ToInt(a) == IF a = <<>> THEN 0 ELSE Head(a) + LimbBase * ToInt(Tail(a))

(***************************************************************************)
(* float64 arithmetic (IEEE 754 binary64, round to nearest, ties to even). *)
(***************************************************************************)
MantBits == 53

Float(neg, mant, exp) == [neg |-> neg, mant |-> mant, exp |-> exp]

\* the product's mantissa rounded to the nearest 53-bit value, ties to even
RoundNearestEven(p, cut) ==
    LET q       == ShiftRight(p, cut)
        guard   == Bit(p, cut - 1)
        sticky  == ~LowBitsZero(p, cut - 1)
        odd     == Bit(q, 0) = 1
    IN  IF guard = 1 /\ (sticky \/ odd) THEN Norm(BigAdd(q, <<1>>, 0)) ELSE q

\* a * b in float64
FloatMul(a, b) ==
    LET p   == BigMul(a.mant, b.mant)
        cut == BitLen(p) - MantBits
    IN  IF cut <= 0 THEN Float(a.neg # b.neg, p, a.exp + b.exp)
        ELSE Float(a.neg # b.neg, RoundNearestEven(p, cut), a.exp + b.exp + cut)

\* the integer part of |f|, as limbs
IntPart(f) == IF f.exp >= 0 THEN ShiftLeft(f.mant, f.exp) ELSE ShiftRight(f.mant, -f.exp)

\* whether |f| has a fractional part
HasFraction(f) == f.exp < 0 /\ ~LowBitsZero(f.mant, -f.exp)

\* Go's int32(f) for a float64 f whose integer part fits an int32: the
\* fractional part is discarded (truncation toward zero)
TruncTowardZero(f) == IF f.neg THEN -ToInt(IntPart(f)) ELSE ToInt(IntPart(f))

\* floor(f): differs from the conversion on negative non-integers
MutFloor(f) ==
    IF f.neg THEN -ToInt(IntPart(f)) - (IF HasFraction(f) THEN 1 ELSE 0)
    ELSE ToInt(IntPart(f))

Int32OfFloat(f) == TruncTowardZero(f)

\* the float64 constant 1000000.0
Million == Float(FALSE, FromInt(1000000), 0)

\* adjustGeoCoordinates from float to Bryton compliant
adjustGeoCoordinates(g) == Int32OfFloat(FloatMul(g, Million))

(***************************************************************************)
(* GeoPoint and the track index of a point.                                *)
(***************************************************************************)
GeoPoint(lat, lon) == [lat |-> lat, lon |-> lon]

\* entry == point on two GeoPoint structs: both fields are compared
GeoPointEq(entry, p) == entry.lat = p.lat /\ entry.lon = p.lon

\* a comparison that looks at the latitude alone
MutLatOnlyEq(entry, p) == entry.lat = p.lat

EntryEqual(entry, p) == GeoPointEq(entry, p)

Uint16(n) == n % 65536

\* the range loop of getCoordinateIndex from the 1-based position i on
RECURSIVE ScanFrom(_, _, _)
ScanFrom(t, p, i) ==
    IF i > Len(t) THEN Uint16(0)
    ELSE IF EntryEqual(t[i], p) THEN Uint16(i - 1)
    ELSE ScanFrom(t, p, i + 1)

\* Returns track index of searched geo point. If not found, returns 0
getCoordinateIndex(t, p) == ScanFrom(t, p, 1)

(***************************************************************************)
(* encoding/binary: fixed-size values written little-endian.               *)
(***************************************************************************)
\* the k low bytes of a natural number, least significant first
RECURSIVE NatBytesLE(_, _)
NatBytesLE(n, k) == IF k = 0 THEN <<>> ELSE <<n % 256>> \o NatBytesLE(n \div 256, k - 1)

\* the k bytes of the two's complement of a negative number v: the
\* complement of the bytes of -v - 1
RECURSIVE NegBytesLE(_, _)
NegBytesLE(m, k) == IF k = 0 THEN <<>> ELSE <<255 - (m % 256)>> \o NegBytesLE(m \div 256, k - 1)

SignedBytesLE(v, k) == IF v >= 0 THEN NatBytesLE(v, k) ELSE NegBytesLE(-v - 1, k)

\* binary.Write(&binaryBuffer, binary.LittleEndian, entry) for an intN or uintN entry of k bytes
WriteInt(v, k) == SignedBytesLE(v, k)

\* int16(n) of a non-negative int
Int16(n) == LET m == n % 65536 IN IF m >= 32768 THEN m - 65536 ELSE m

Zeros(k) == [i \in 1..k |-> 0]

(***************************************************************************)
(* The three files.                                                        *)
(***************************************************************************)
\* the zero value of BrytonSmy
ZeroSmy == [smyFlag |-> 0, coordinateCount |-> 0, bboxLatNe |-> 0, bboxLatSw |-> 0,
            bboxLonNe |-> 0, bboxLonSw |-> 0, totalDst |-> 0]

\* the zero value of BrytonData
ZeroData == [smy |-> ZeroSmy, track |-> <<>>, tinfo |-> <<>>]

\* binary.Write of the whole struct, as the earlier variant of BrytonSmy.Export
\* did: the first field is s.smyFlag, which nothing sets
MutSmyStructLayout(s) ==
    WriteInt(s.smyFlag, 2) \o WriteInt(s.coordinateCount, 2) \o WriteInt(s.bboxLatNe, 4)
    \o WriteInt(s.bboxLatSw, 4) \o WriteInt(s.bboxLonNe, 4) \o WriteInt(s.bboxLonSw, 4)
    \o WriteInt(s.totalDst, 4)

\* the layout slice of BrytonSmy.Export, written entry by entry; the first
\* entry is the literal int16(0x01)
SmyLayout(s) ==
    WriteInt(1, 2) \o WriteInt(s.coordinateCount, 2) \o WriteInt(s.bboxLatNe, 4)
    \o WriteInt(s.bboxLatSw, 4) \o WriteInt(s.bboxLonNe, 4) \o WriteInt(s.bboxLonSw, 4)
    \o WriteInt(s.totalDst, 4)

\* a track record with the longitude written before the latitude
MutTrackLayoutLonFirst(entry) ==
    WriteInt(entry.lon, 4) \o WriteInt(entry.lat, 4) \o Zeros(8)

\* the layout slice of BrytonTrack.Export for one entry: lat, lon, uint64(0)
TrackLayout(entry) ==
    WriteInt(entry.lat, 4) \o WriteInt(entry.lon, 4) \o Zeros(8)

RECURSIVE TrackBuffer(_)
TrackBuffer(t) == IF t = <<>> THEN <<>> ELSE TrackLayout(Head(t)) \o TrackBuffer(Tail(t))

\* a waypoint record without the reserved byte after the direction code
MutTinfoLayoutPacked(w) ==
    WriteInt(w.coordinateIndex, 2) \o WriteInt(w.directionCode, 1)
    \o WriteInt(w.distance, 2) \o Zeros(2) \o WriteInt(w.timeSec, 2) \o Zeros(2)
    \o w.waypointDescription

\* the layout slice of BrytonTinfo.Export for one entry
TinfoLayout(w) ==
    WriteInt(w.coordinateIndex, 2) \o WriteInt(w.directionCode, 1) \o Zeros(1)
    \o WriteInt(w.distance, 2) \o Zeros(2) \o WriteInt(w.timeSec, 2) \o Zeros(2)
    \o w.waypointDescription

RECURSIVE TinfoBuffer(_)
TinfoBuffer(t) == IF t = <<>> THEN <<>> ELSE TinfoLayout(Head(t)) \o TinfoBuffer(Tail(t))

Exts == {"smy", "track", "tinfo"}

\* what the operating system does with one storeToFile call
IOOutcomes == {"ok", "create fails", "write fails"}

NoFile == [exists |-> FALSE, bytes |-> <<>>]

\* the bytes a failing file.Write got out before it failed
ShortWrite(buf) == SubSeq(buf, 1, Len(buf) \div 2)

\* Stores byte buffer to file: os.Create truncates the file, file.Write fills it
storeToFile(buf, file, outcome) ==
    IF outcome = "create fails" THEN [file |-> file, err |-> "create error"]
    ELSE IF outcome = "write fails"
         THEN [file |-> [exists |-> TRUE, bytes |-> ShortWrite(buf)], err |-> "write error"]
         ELSE [file |-> [exists |-> TRUE, bytes |-> buf], err |-> "nil"]

\* Export BrytonSmy structure to .smy file
SmyExport(s, file, outcome) == storeToFile(SmyLayout(s), file, outcome)

\* Export BrytonTrack structure to .track file
TrackExport(t, file, outcome) == storeToFile(TrackBuffer(t), file, outcome)

\* Export BrytonTinfo structure to .tinfo file
TinfoExport(t, file, outcome) == storeToFile(TinfoBuffer(t), file, outcome)

\* BrytonData.Export has no result: the caller gets nothing back
NoValue == "no value"

Attempt(ext, r) == [ext |-> ext, err |-> r.err]

\* an export that gives up at the first encoder that fails
MutExportStopsAtFailure(data, fs, io) ==
    LET r1 == SmyExport(data.smy, fs.smy, io.smy)
        r2 == TrackExport(data.track, fs.track, io.track)
        r3 == TinfoExport(data.tinfo, fs.tinfo, io.tinfo)
    IN  IF r1.err # "nil"
        THEN [files |-> [fs EXCEPT !.smy = r1.file],
              attempts |-> <<Attempt("smy", r1)>>, ret |-> NoValue]
        ELSE IF r2.err # "nil"
        THEN [files |-> [fs EXCEPT !.smy = r1.file, !.track = r2.file],
              attempts |-> <<Attempt("smy", r1), Attempt("track", r2)>>, ret |-> NoValue]
        ELSE [files |-> [smy |-> r1.file, track |-> r2.file, tinfo |-> r3.file],
              attempts |-> <<Attempt("smy", r1), Attempt("track", r2), Attempt("tinfo", r3)>>,
              ret |-> NoValue]

\* Export BrytonData structure to .smy .track and .tinfo files: the three
\* encoders are called one after the other and what each returns is dropped
Export(data, fs, io) ==
    LET r1 == SmyExport(data.smy, fs.smy, io.smy)
        r2 == TrackExport(data.track, fs.track, io.track)
        r3 == TinfoExport(data.tinfo, fs.tinfo, io.tinfo)
    IN  [files |-> [smy |-> r1.file, track |-> r2.file, tinfo |-> r3.file],
         attempts |-> <<Attempt("smy", r1), Attempt("track", r2), Attempt("tinfo", r3)>>,
         ret |-> NoValue]

(***************************************************************************)
(* Direction codes.                                                        *)
(***************************************************************************)
DirectionCodeCloseLeft == 7
DirectionCodeLeft == 3
DirectionCodeSlightLeft == 5
DirectionCodeGoAhead == 1
DirectionCodeSlightRight == 4
DirectionCodeRight == 2
DirectionCodeCloseRight == 6

\* the markers of the switch, as ASCII bytes
Str_tshl     == <<116, 115, 104, 108>>
Str_left     == <<108, 101, 102, 116>>
Str_tsll     == <<116, 115, 108, 108>>
Str_straight == <<115, 116, 114, 97, 105, 103, 104, 116>>
Str_tslr     == <<116, 115, 108, 114>>
Str_right    == <<114, 105, 103, 104, 116>>
Str_tshr     == <<116, 115, 104, 114>>

\* Convert gpx waypoint direction markers to Bryton compliant
convertDirectionCode(gpxDirCode) ==
    CASE gpxDirCode = Str_tshl     -> DirectionCodeCloseLeft
      [] gpxDirCode = Str_left     -> DirectionCodeLeft
      [] gpxDirCode = Str_tsll     -> DirectionCodeSlightLeft
      [] gpxDirCode = Str_straight -> DirectionCodeGoAhead
      [] gpxDirCode = Str_tslr     -> DirectionCodeSlightRight
      [] gpxDirCode = Str_right    -> DirectionCodeRight
      [] gpxDirCode = Str_tshr     -> DirectionCodeCloseRight
      [] OTHER                     -> DirectionCodeGoAhead

\* unicode.ToLower on an ASCII byte: 'A'..'Z' become 'a'..'z'
LowerByte(b) == IF b >= 65 /\ b <= 90 THEN b + 32 ELSE b

\* strings.ToLower on an ASCII string
StringsToLower(s) == [i \in 1..Len(s) |-> LowerByte(s[i])]

\* the marker handed to the switch as it stands
MutKeepCase(s) == s

\* strings.ToLower(w.Symbol)
LowerSymbol(s) == StringsToLower(s)

(***************************************************************************)
(* ImportGpx.                                                              *)
(***************************************************************************)
DescriptionLen == 32

Min(a, b) == IF a <= b THEN a ELSE b

\* copy(dst[:], name) into a zeroed [32]uint8: min(32, len(name)) bytes are copied
CopyName(name) ==
    [i \in 1..DescriptionLen |-> IF i <= Min(DescriptionLen, Len(name)) THEN name[i] ELSE 0]

\* a copy that keeps the last 32 bytes of a long name instead of the first
MutCopyNameTail(name) ==
    [i \in 1..DescriptionLen |->
        IF Len(name) > DescriptionLen THEN name[Len(name) - DescriptionLen + i]
        ELSE IF i <= Len(name) THEN name[i] ELSE 0]

WaypointDescription(name) == CopyName(name)

RECURSIVE SumLens(_)
SumLens(ss) == IF ss = <<>> THEN 0 ELSE Len(Head(ss)) + SumLens(Tail(ss))

RECURSIVE TrackPointsNo(_)
TrackPointsNo(tracks) ==
    IF tracks = <<>> THEN 0 ELSE SumLens(Head(tracks).Segments) + TrackPointsNo(Tail(tracks))

\* gpxData.GetTrackPointsNo(): the points of every segment of every track
GetTrackPointsNo(g) == TrackPointsNo(g.Tracks)

\* the points ImportGpx reads: those of Tracks[0].Segments[0], when there are any
FirstSegmentPoints(g) ==
    IF Len(g.Tracks) > 0
    THEN IF Len(g.Tracks[1].Segments) > 0 THEN g.Tracks[1].Segments[1] ELSE <<>>
    ELSE <<>>

EncodePoint(p) == GeoPoint(adjustGeoCoordinates(p.lat), adjustGeoCoordinates(p.lon))

\* the smy data block of ImportGpx
ImportSmy(s, g) ==
    [s EXCEPT !.coordinateCount = Int16(GetTrackPointsNo(g)),
              !.totalDst = Int32OfFloat(g.Length3D),
              !.bboxLatNe = adjustGeoCoordinates(g.Bounds.MaxLatitude),
              !.bboxLonNe = adjustGeoCoordinates(g.Bounds.MaxLongitude),
              !.bboxLatSw = adjustGeoCoordinates(g.Bounds.MinLatitude),
              !.bboxLonSw = adjustGeoCoordinates(g.Bounds.MinLongitude)]

\* the track data block: every point of the first segment is appended to d.track
ImportTrack(t, g) ==
    t \o [i \in 1..Len(FirstSegmentPoints(g)) |-> EncodePoint(FirstSegmentPoints(g)[i])]

\* the body of the waypoint loop, against the track as it is by then
ImportWaypoint(t, w) ==
    [coordinateIndex |-> getCoordinateIndex(t, EncodePoint(w)),
     directionCode |-> convertDirectionCode(LowerSymbol(w.Symbol)),
     distance |-> 0,
     timeSec |-> 0,
     waypointDescription |-> WaypointDescription(w.Name)]

ImportTinfo(ti, t, g) ==
    ti \o [i \in 1..Len(g.Waypoints) |-> ImportWaypoint(t, g.Waypoints[i])]

\* an import that fills the summary before it looks at the parser's error
MutImportGpxLateCheck(data, parsed) ==
    IF parsed.err # "nil"
    THEN [d |-> [data EXCEPT !.smy.coordinateCount = 0 - 1], err |-> parsed.err]
    ELSE LET t == ImportTrack(data.track, parsed.gpx)
         IN  [d |-> [smy |-> ImportSmy(data.smy, parsed.gpx), track |-> t,
                     tinfo |-> ImportTinfo(data.tinfo, t, parsed.gpx)],
              err |-> "nil"]

\* ImportGpx file and parse to BrytonData structure; parsed is what
\* gpx.ParseFile returned
ImportGpx(data, parsed) ==
    IF parsed.err # "nil"
    THEN [d |-> data, err |-> parsed.err]
    ELSE LET t == ImportTrack(data.track, parsed.gpx)
         IN  [d |-> [smy |-> ImportSmy(data.smy, parsed.gpx), track |-> t,
                     tinfo |-> ImportTinfo(data.tinfo, t, parsed.gpx)],
              err |-> "nil"]

(***************************************************************************)
(* The parts of the state a specification does not use stay as they are.   *)
(***************************************************************************)
EmptyGpx == [Tracks |-> <<>>, Waypoints |-> <<>>,
             Bounds |-> [MaxLatitude |-> Float(FALSE, <<>>, 0), MaxLongitude |-> Float(FALSE, <<>>, 0),
                         MinLatitude |-> Float(FALSE, <<>>, 0), MinLongitude |-> Float(FALSE, <<>>, 0)],
             Length3D |-> Float(FALSE, <<>>, 0)]

NotParsed == [err |-> "not parsed", gpx |-> EmptyGpx]

NoFiles == [e \in Exts |-> NoFile]

RunIdle ==
    /\ pc = "start"
    /\ gpxData = NotParsed
    /\ d = ZeroData
    /\ err = "not called"
    /\ files = NoFiles
    /\ attempts = <<>>
    /\ exportRet = "not called"

PureIdle ==
    /\ geo = Float(FALSE, <<>>, 0)
    /\ adjusted = <<>>
    /\ seq = <<>>
    /\ point = GeoPoint(0, 0)
    /\ index = <<>>

(***************************************************************************)
(* SpecCodec: adjustGeoCoordinates applied to float64 inputs.              *)
(***************************************************************************)
\* 53-bit mantissas; the first ones are those of the decimal literals named
Mant_51_507351 == <<3044, 673, 3854, 1648>>     \* 0x19c0f0e0a84be4, 51.507351 = m * 2^-47
Mant_0_127758  == <<13311, 8090, 9724, 1046>>   \* 0x105a5fc7e6b3ff, 0.127758  = m * 2^-55
Mant_4_35      == <<9830, 6553, 9830, 1113>>    \* 0x11666666666666, 4.35      = m * 2^-50
Mant_0_000249  == <<13326, 11587, 6253, 1044>>  \* 0x105186db50f40e, 0.000249  = m * 2^-64
Mant_0_1       == <<6554, 9830, 6553, 1638>>    \* 0x1999999999999a, 0.1       = m * 2^-56
Mant_0_9999995 == <<1525, 3650, 16367, 2047>>   \* 0x1ffffef39085f5, 0.9999995 = m * 2^-53
Mant_One       == <<0, 0, 0, 1024>>             \* 2^52
Mant_Max       == <<16383, 16383, 16383, 2047>> \* 2^53 - 1

Mantissas == {<<>>, Mant_51_507351, Mant_0_127758, Mant_4_35, Mant_0_000249,
              Mant_0_1, Mant_0_9999995, Mant_One, Mant_Max}

\* exponents: mant * 2^exp stays below 2^7 = 128 degrees
MaxGeoExp == 0 - 46
ExpSpan == 20

GeoInputs == {Float(n, m, e) : n \in BOOLEAN, m \in Mantissas,
                               e \in (MaxGeoExp - ExpSpan)..MaxGeoExp}

Geo_51_507351     == Float(FALSE, Mant_51_507351, -47)
Geo_Neg_0_127758  == Float(TRUE, Mant_0_127758, -55)
Geo_0_000249      == Float(FALSE, Mant_0_000249, -64)
Geo_4_35          == Float(FALSE, Mant_4_35, -50)

InitCodec == PureIdle /\ RunIdle

Adjust ==
    \E g \in GeoInputs :
        /\ geo' = g
        /\ adjusted' = <<adjustGeoCoordinates(g)>>
        /\ UNCHANGED <<seq, point, index>>
        /\ UNCHANGED runVars

NextCodec == Adjust

SpecCodec == InitCodec /\ [][NextCodec]_vars

\* |f| lies in [n, n + 1), for a natural number n
Brackets(n, f) ==
    IF f.exp >= 0
    THEN FromInt(n) = ShiftLeft(f.mant, f.exp)
    ELSE /\ BigLeq(ShiftLeft(FromInt(n), -f.exp), f.mant)
         /\ ~BigLeq(ShiftLeft(FromInt(n + 1), -f.exp), f.mant)

Abs(n) == IF n < 0 THEN -n ELSE n

\* C5: adjustGeoCoordinates(d) is the float64 product d * 1000000.0 with its
\* fractional part discarded (truncated toward zero, neither rounded nor
\* floored): the result r has the sign of the product and |r| <= |product| <
\* |r| + 1; adjustGeoCoordinates(51.507351) = 51507351 and
\* adjustGeoCoordinates(-0.127758) = -127758.
C5_TruncatesTowardZero ==
    adjusted # <<>> =>
        LET r == adjusted[1]
            product == FloatMul(geo, Million)
        IN  /\ Brackets(Abs(r), product)
            /\ (r > 0 => ~product.neg)
            /\ (r < 0 => product.neg)
            /\ (geo = Geo_51_507351 => r = 51507351)
            /\ (geo = Geo_Neg_0_127758 => r = -127758)
            /\ (geo = Geo_4_35 => r = 4350000)
            /\ (geo = Geo_0_000249 => r = 248)

\* a negative input with a fractional product has been converted
C5_Witness ==
    /\ geo = Geo_Neg_0_127758
    /\ adjusted = <<-127758>>
    /\ HasFraction(FloatMul(geo, Million))

(***************************************************************************)
(* SpecResolve: getCoordinateIndex applied to tracks and points.           *)
(***************************************************************************)
MaxTrackLen == 4

CoordValues == {-127758, 51507351}

ResolvePoints == {GeoPoint(a, b) : a \in CoordValues, b \in CoordValues}

RECURSIVE SeqsUpTo(_, _)
SeqsUpTo(S, n) ==
    IF n = 0 THEN {<<>>}
    ELSE LET shorter == SeqsUpTo(S, n - 1)
         IN  shorter \cup {Append(s, x) : s \in {t \in shorter : Len(t) = n - 1}, x \in S}

InitResolve ==
    /\ seq \in SeqsUpTo(ResolvePoints, MaxTrackLen)
    /\ point = GeoPoint(0, 0)
    /\ index = <<>>
    /\ geo = Float(FALSE, <<>>, 0)
    /\ adjusted = <<>>
    /\ RunIdle

Resolve ==
    \E p \in ResolvePoints :
        /\ point' = p
        /\ index' = <<getCoordinateIndex(seq, p)>>
        /\ UNCHANGED <<seq, geo, adjusted>>
        /\ UNCHANGED runVars

NextResolve == Resolve

SpecResolve == InitResolve /\ [][NextResolve]_vars

\* C1: getCoordinateIndex(seq, p) is the lowest 0-based index whose element
\* equals p on both coordinates, and 0 when no element of seq equals p
\* (the empty track included).
C1_LowestMatchingIndex ==
    index # <<>> =>
        LET r == index[1]
            matches == {i \in 1..Len(seq) : seq[i] = point}
        IN  IF matches = {} THEN r = 0
            ELSE /\ r + 1 \in matches
                 /\ \A i \in matches : r + 1 <= i

\* a point that occurs twice, not at the start, resolved to its first occurrence
C1_Witness ==
    /\ Len(seq) = 3
    /\ seq[1] # point /\ seq[2] = point /\ seq[3] = point
    /\ seq[1].lat = point.lat
    /\ index = <<1>>


(***************************************************************************)
(* Spec: the caller of the README: ImportGpx on a fresh BrytonData, then   *)
(* Export when the import returned no error.                               *)
(***************************************************************************)
MaxPoints == 3
MaxWaypoints == 2

\* k degrees, k a natural number
IntDeg(k) == Float(FALSE, FromInt(k), 0)

DegPoint(a, b) == [lat |-> IntDeg(a), lon |-> IntDeg(b)]

London == [lat |-> Geo_51_507351, lon |-> Geo_Neg_0_127758]

\* (0,0), (1,1), (2,2), ...
Straight(n) == [i \in 1..n |-> DegPoint(i - 1, i - 1)]

\* London, then (2,2) again and again
Loop(n) == [i \in 1..n |-> IF i = 1 THEN London ELSE DegPoint(2, 2)]

Paths == {Straight(n) : n \in 0..MaxPoints} \cup {Loop(n) : n \in 1..MaxPoints}

Track(segments) == [Segments |-> segments]

TrackChoices ==
    {<<>>, <<Track(<<>>)>>}
    \cup {<<Track(<<s>>)>> : s \in Paths}
    \cup {<<Track(<<Straight(1), Loop(MaxPoints)>>)>>,
          <<Track(<<<<>>, Straight(2)>>)>>,
          <<Track(<<Loop(MaxPoints)>>), Track(<<Straight(1)>>)>>,
          <<Track(<<>>), Track(<<Straight(2)>>)>>}

Str_Turn      == <<84, 117, 114, 110>>
Str_London    == <<76, 111, 110, 100, 111, 110>>
Str_TSHL      == <<84, 83, 72, 76>>
Str_Right     == <<82, 105, 103, 104, 116>>
Str_STRAIGHT  == <<83, 84, 82, 65, 73, 71, 72, 84>>
Str_lefty     == <<108, 101, 102, 116, 121>>
Str_unknown   == <<117, 110, 107, 110, 111, 119, 110, 45, 109, 97, 114, 107, 101, 114>>

\* a name of n bytes: 'A', 'B', ...
LongName(n) == [i \in 1..n |-> 64 + i]

Wpt(p, symbol, name) == [lat |-> p.lat, lon |-> p.lon, Symbol |-> symbol, Name |-> name]

Catalogue ==
    << Wpt(DegPoint(1, 1), Str_left, Str_Turn),
       Wpt(DegPoint(0, 0), Str_TSHL, LongName(33)),
       Wpt(DegPoint(1, 2), <<>>, <<>>),
       Wpt(DegPoint(2, 2), Str_Right, LongName(32)),
       Wpt(London, Str_tshr, Str_London),
       Wpt(DegPoint(0, 0), Str_straight, LongName(31)),
       Wpt(DegPoint(2, 2), Str_tsll, LongName(40)),
       Wpt(DegPoint(1, 1), Str_tslr, Str_Turn),
       Wpt(DegPoint(5, 5), Str_unknown, Str_London),
       Wpt(DegPoint(2, 1), Str_STRAIGHT, <<>>),
       Wpt(DegPoint(2, 2), Str_lefty, LongName(33)),
       Wpt(DegPoint(1, 1), Str_tshl, LongName(32)),
       Wpt(London, Str_right, Str_Turn) >>

\* the waypoint lists: up to MaxWaypoints consecutive entries of the catalogue
WaypointChoices ==
    {SubSeq(Catalogue, w[1], w[1] + w[2] - 1) :
        w \in {x \in (1..Len(Catalogue)) \X (0..MaxWaypoints) : x[1] + x[2] - 1 <= Len(Catalogue)}}

Geo_0_1     == Float(FALSE, Mant_0_1, -56)
Geo_1234_56 == Float(FALSE, <<5898, 655, 9175, 1234>>, -42)   \* 0x134a3d70a3d70a, 1234.56

SummaryChoices ==
    {[Bounds |-> EmptyGpx.Bounds, Length3D |-> EmptyGpx.Length3D],
     [Bounds |-> [MaxLatitude |-> Geo_51_507351, MaxLongitude |-> Geo_0_1,
                  MinLatitude |-> Geo_4_35, MinLongitude |-> Geo_Neg_0_127758],
      Length3D |-> Geo_1234_56]}

\* what gpx.ParseFile can return: an error, or a parsed file
ParseResults ==
    {[err |-> "parse error", gpx |-> EmptyGpx]}
    \cup {[err |-> "nil",
           gpx |-> [Tracks |-> t, Waypoints |-> w, Bounds |-> s.Bounds, Length3D |-> s.Length3D]] :
          t \in TrackChoices, w \in WaypointChoices, s \in SummaryChoices}

\* files left by an earlier run
StaleFiles == [e \in Exts |-> [exists |-> TRUE, bytes |-> <<255, 255, 255>>]]

Init ==
    /\ PureIdle
    /\ pc = "start"
    /\ gpxData = NotParsed
    /\ d = ZeroData
    /\ err = "not called"
    /\ files \in {NoFiles, StaleFiles}
    /\ attempts = <<>>
    /\ exportRet = "not called"

\* err := data.ImportGpx(*inFileNamePtr)
CallImportGpx ==
    /\ pc = "start"
    /\ \E parsed \in ParseResults :
        LET r == ImportGpx(d, parsed)
        IN  /\ gpxData' = parsed
            /\ d' = r.d
            /\ err' = r.err
            /\ pc' = IF r.err = "nil" THEN "imported" ELSE "failed"
    /\ UNCHANGED <<files, attempts, exportRet>>
    /\ UNCHANGED pureVars

\* if err == nil { data.Export(*outFileNamePtr) }
CallExport ==
    /\ pc = "imported"
    /\ \E io \in [Exts -> IOOutcomes] :
        LET r == Export(d, files, io)
        IN  /\ files' = r.files
            /\ attempts' = r.attempts
            /\ exportRet' = r.ret
    /\ pc' = "exported"
    /\ UNCHANGED <<gpxData, d, err>>
    /\ UNCHANGED pureVars

Next == CallImportGpx \/ CallExport

Spec == Init /\ [][Next]_vars

(***************************************************************************)
(* Reading the files back.                                                 *)
(***************************************************************************)
\* the n bytes of b from the 0-based offset off on
Slice(b, off, n) == SubSeq(b, off + 1, off + n)

RECURSIVE NatOfLE(_)
NatOfLE(b) == IF b = <<>> THEN 0 ELSE Head(b) + 256 * NatOfLE(Tail(b))

\* a little-endian two's complement integer
DecodeSigned(b) ==
    IF b[Len(b)] >= 128 THEN -NatOfLE([i \in 1..Len(b) |-> 255 - b[i]]) - 1 ELSE NatOfLE(b)

\* the GeoPoints of a .track file of whole 16-byte records
DecodeTrack(b) ==
    [k \in 1..(Len(b) \div 16) |->
        GeoPoint(DecodeSigned(Slice(b, 16 * (k - 1), 4)),
                 DecodeSigned(Slice(b, 16 * (k - 1) + 4, 4)))]

\* the encoder of ext ran and its storeToFile returned nil
Written(ext) == \E i \in 1..Len(attempts) : attempts[i].ext = ext /\ attempts[i].err = "nil"

Imported == pc \in {"imported", "exported"}

\* C2: a written .track file is 16 bytes per track point and nothing else:
\* record k is lat, lon (4 bytes each) and 8 zero bytes, and reading the
\* records back gives the track, point for point, in order.
C2_TrackRoundTrip ==
    (pc = "exported" /\ Written("track")) =>
        LET b == files.track.bytes
            N == Len(d.track)
        IN  /\ Len(b) = 16 * N
            /\ \A k \in 0..(N - 1) :
                /\ DecodeSigned(Slice(b, 16 * k, 4)) = d.track[k + 1].lat
                /\ DecodeSigned(Slice(b, 16 * k + 4, 4)) = d.track[k + 1].lon
                /\ Slice(b, 16 * k + 8, 8) = Zeros(8)
            /\ DecodeTrack(b) = d.track

\* three points, the first with a negative longitude, written out
C2_Witness ==
    /\ pc = "exported"
    /\ Written("track")
    /\ Len(d.track) = 3
    /\ d.track[1] = GeoPoint(51507351, -127758)
    /\ d.track[2] = d.track[3]
    /\ Len(files.track.bytes) = 48

\* C3: a written .smy file is 24 bytes: the flag 0x0001, coordinateCount,
\* then north, south, east, west (bboxLatNe, bboxLatSw, bboxLonNe,
\* bboxLonSw) and totalDst; the flag is 1 whatever the record holds.
C3_SmyLayout ==
    (pc = "exported" /\ Written("smy")) =>
        LET b == files.smy.bytes
            bounds == gpxData.gpx.Bounds
        IN  /\ Len(b) = 24
            /\ Slice(b, 0, 2) = <<1, 0>>
            /\ DecodeSigned(Slice(b, 2, 2)) = d.smy.coordinateCount
            /\ DecodeSigned(Slice(b, 4, 4)) = d.smy.bboxLatNe
            /\ DecodeSigned(Slice(b, 8, 4)) = d.smy.bboxLatSw
            /\ DecodeSigned(Slice(b, 12, 4)) = d.smy.bboxLonNe
            /\ DecodeSigned(Slice(b, 16, 4)) = d.smy.bboxLonSw
            /\ DecodeSigned(Slice(b, 20, 4)) = d.smy.totalDst
            /\ (bounds.MaxLatitude = Geo_51_507351 =>
                    /\ DecodeSigned(Slice(b, 4, 4)) = 51507351
                    /\ DecodeSigned(Slice(b, 8, 4)) = 4350000
                    /\ DecodeSigned(Slice(b, 12, 4)) = 100000
                    /\ DecodeSigned(Slice(b, 16, 4)) = -127758
                    /\ DecodeSigned(Slice(b, 20, 4)) = 1234)

\* a summary with four different edges and a non-zero count, written out
C3_Witness ==
    /\ pc = "exported"
    /\ Written("smy")
    /\ d.smy.coordinateCount = 3
    /\ d.smy.bboxLatNe = 51507351
    /\ d.smy.bboxLonSw = -127758
    /\ d.smy.smyFlag = 0
    /\ Len(files.smy.bytes) = 24

\* the lower-case form of an ASCII string, letter by letter
ClaimLower(s) ==
    [i \in 1..Len(s) |-> IF \E j \in 1..26 : s[i] = 64 + j THEN s[i] + 32 ELSE s[i]]

\* the table of the claim, on lower-case markers
ClaimTable(s) ==
    IF s = Str_tshl THEN 7
    ELSE IF s = Str_left THEN 3
    ELSE IF s = Str_tsll THEN 5
    ELSE IF s = Str_straight THEN 1
    ELSE IF s = Str_tslr THEN 4
    ELSE IF s = Str_right THEN 2
    ELSE IF s = Str_tshr THEN 6
    ELSE 1

\* C4: the direction code import stores for a waypoint is the table's code
\* for the lower-cased symbol (so "TSHL" gives 0x07), 0x01 for anything
\* else, the empty string included, and an unknown marker does not make the
\* import fail: it returns nil with one waypoint stored per input waypoint.
C4_DirectionCodes ==
    Imported =>
        LET W == gpxData.gpx.Waypoints
        IN  /\ err = "nil"
            /\ Len(d.tinfo) = Len(W)
            /\ \A k \in 1..Len(W) :
                /\ d.tinfo[k].directionCode = ClaimTable(ClaimLower(W[k].Symbol))
                /\ (W[k].Symbol = Str_TSHL => d.tinfo[k].directionCode = 7)
                /\ (W[k].Symbol \in {<<>>, Str_unknown, Str_lefty} => d.tinfo[k].directionCode = 1)

\* an upper-case marker and an empty one, imported
C4_Witness ==
    /\ pc = "imported"
    /\ err = "nil"
    /\ Len(d.tinfo) = 2
    /\ gpxData.gpx.Waypoints[1].Symbol = Str_TSHL
    /\ gpxData.gpx.Waypoints[2].Symbol = <<>>
    /\ d.tinfo[1].directionCode = 7
    /\ d.tinfo[2].directionCode = 1

\* the lowest 0-based index of p in t, 0 when p is not in t
FirstIndex(t, p) ==
    LET matches == {i \in 1..Len(t) : t[i] = p}
    IN  IF matches = {} THEN 0
        ELSE (CHOOSE i \in matches : \A j \in matches : i <= j) - 1

\* a name cut or zero-padded to 32 bytes
Pad32(name) == [i \in 1..32 |-> IF i <= Len(name) THEN name[i] ELSE 0]

\* C6: a written .tinfo file holds one 44-byte record per input waypoint, in
\* input order: the index of the first track point equal to the waypoint's
\* encoded coordinates (0 if none), the direction code, a zero byte,
\* distance 0, two zero bytes, time 0, two zero bytes and the name in 32
\* bytes; the track (0,0), (1,1), (2,2) with one waypoint at (1,1), "left",
\* "Turn" gives index 1, direction 3 and "Turn" followed by 28 zero bytes.
C6_TinfoRecords ==
    (pc = "exported" /\ Written("tinfo")) =>
        LET b == files.tinfo.bytes
            W == gpxData.gpx.Waypoints
        IN  /\ Len(b) = 44 * Len(W)
            /\ \A k \in 0..(Len(W) - 1) :
                LET w == W[k + 1]
                IN  /\ NatOfLE(Slice(b, 44 * k, 2)) = FirstIndex(d.track, EncodePoint(w))
                    /\ b[44 * k + 3] = ClaimTable(ClaimLower(w.Symbol))
                    /\ Slice(b, 44 * k + 3, 9) = Zeros(9)
                    /\ Slice(b, 44 * k + 12, 32) = Pad32(w.Name)
            /\ (/\ gpxData.gpx.Tracks = <<Track(<<Straight(3)>>)>>
                /\ W = <<Wpt(DegPoint(1, 1), Str_left, Str_Turn)>>
                => b = <<1, 0, 3, 0, 0, 0, 0, 0, 0, 0, 0, 0>> \o Str_Turn \o Zeros(28))

\* the example of the claim, exported
C6_Witness ==
    /\ pc = "exported"
    /\ Written("tinfo")
    /\ d.track = <<GeoPoint(0, 0), GeoPoint(1000000, 1000000), GeoPoint(2000000, 2000000)>>
    /\ gpxData.gpx.Waypoints = <<Wpt(DegPoint(1, 1), Str_left, Str_Turn)>>
    /\ Len(files.tinfo.bytes) = 44
    /\ files.tinfo.bytes[1] = 1

\* C7: the description stored for a waypoint is 32 bytes: the first
\* min(L, 32) bytes of the name, then zeros; a longer name is cut and the
\* import still returns nil.
C7_DescriptionTruncated ==
    Imported =>
        LET W == gpxData.gpx.Waypoints
        IN  /\ err = "nil"
            /\ Len(d.tinfo) = Len(W)
            /\ \A k \in 1..Len(W) :
                LET name == W[k].Name
                    desc == d.tinfo[k].waypointDescription
                    L == Len(name)
                IN  /\ Len(desc) = 32
                    /\ \A i \in 1..32 :
                        desc[i] = IF i <= (IF L < 32 THEN L ELSE 32) THEN name[i] ELSE 0

\* a name of 40 bytes, imported
C7_Witness ==
    /\ pc = "imported"
    /\ err = "nil"
    /\ Len(d.tinfo) >= 1
    /\ Len(gpxData.gpx.Waypoints[1].Name) = 40
    /\ d.tinfo[1].waypointDescription = SubSeq(gpxData.gpx.Waypoints[1].Name, 1, 32)

\* C8: when the parser fails, ImportGpx returns its error, the BrytonData
\* is what it was before the call, no output file is touched, and the
\* caller, who exports on a nil error only, has made no storeToFile call.
C8_ParseFailureWritesNothing ==
    [][/\ ((pc = "start" /\ gpxData'.err = "parse error") =>
              /\ err' # "nil"
              /\ pc' = "failed"
              /\ d' = d
              /\ files' = files)
       /\ (pc' = "failed" => attempts' = <<>> /\ exportRet' = "not called")
       /\ (pc = "failed" => files' = files /\ d' = d)]_vars

\* a failed import, with the files of an earlier run still in place
C8_Witness ==
    /\ pc = "failed"
    /\ err = "parse error"
    /\ gpxData.err = "parse error"
    /\ d = ZeroData
    /\ files = StaleFiles

\* C9 (as claimed): when one of the three files could not be created or
\* written, the caller of BrytonData.Export is handed an error value.
C9_ExportReportsFailure ==
    (pc = "exported" /\ \E i \in 1..Len(attempts) : attempts[i].err # "nil") =>
        exportRet \notin {NoValue, "nil"}

\* the file as the encoder of ext writes it from data
Encoded(ext, data) ==
    CASE ext = "smy" -> SmyLayout(data.smy)
      [] ext = "track" -> TrackBuffer(data.track)
      [] ext = "tinfo" -> TinfoBuffer(data.tinfo)

\* C10: an export calls the three encoders once each, .smy, .track, .tinfo
\* in this order, whatever fails; a file an encoder has written is there
\* in full at the end whatever the other encoders ran into, a file that
\* could not be created is left as it was, and the BrytonData is unchanged.
C10_ExportOrderNoRollback ==
    [][(pc = "imported" /\ pc' = "exported") =>
          /\ d' = d
          /\ Len(attempts') = 3
          /\ attempts'[1].ext = "smy"
          /\ attempts'[2].ext = "track"
          /\ attempts'[3].ext = "tinfo"
          /\ \A i \in 1..3 :
              LET a == attempts'[i]
              IN  /\ (a.err = "nil" =>
                        files'[a.ext] = [exists |-> TRUE, bytes |-> Encoded(a.ext, d)])
                  /\ (a.err = "create error" => files'[a.ext] = files[a.ext])
                  /\ (a.err = "write error" => files'[a.ext].exists)]_vars

\* .smy written, .track failed to be created, .tinfo written all the same
C10_Witness ==
    /\ pc = "exported"
    /\ Len(attempts) = 3
    /\ attempts[1].err = "nil"
    /\ attempts[2].err = "create error"
    /\ attempts[3].err = "nil"
    /\ Len(files.smy.bytes) = 24
    /\ ~files.track.exists
    /\ Len(files.tinfo.bytes) = 88

\* C11 (as claimed): after a successful import into a fresh BrytonData the
\* summary's coordinateCount is the number of GeoPoints of the track, which
\* holds the encoded points of the first track's first segment in order,
\* and so is the size of a written .track file divided by 16.
C11_CountIsTrackLength ==
    Imported =>
        LET first == FirstSegmentPoints(gpxData.gpx)
        IN  /\ err = "nil"
            /\ Len(d.track) = Len(first)
            /\ \A i \in 1..Len(first) : d.track[i] = EncodePoint(first[i])
            /\ d.smy.coordinateCount = Len(d.track)
            /\ ((pc = "exported" /\ Written("track")) =>
                    d.smy.coordinateCount * 16 = Len(files.track.bytes))

====
